---- MODULE Spec2Model ----
(***************************************************************************)
(* Model of the rule analysis engine of Pan_Evaluator (src/evaluator.py):  *)
(* RuleLike, Analyzer (hit-count overlay, shadow detection, merge          *)
(* proposals with the order-sensitivity scan, unused rules), the handler    *)
(* that runs them, App._process_analysis_results, and the CSV import path  *)
(* (CSVReader.fetch_rules, App._run_csv_analyze), and the App's handlers   *)
(* of the analyse, preview and export buttons with the results they keep.  *)
(*                                                                         *)
(* Python values are represented as follows:                               *)
(*   Optional[T]   None is <<>>, a present value x is <<x>>                *)
(*   List[str]     a sequence of strings                                   *)
(*   set           a set of strings                                        *)
(*   str built by an f-string: the sequence of its parts, "" is <<>>       *)
(*   dict          a function on its key set                               *)
(*   sha1 digest   the digested key itself (the digest is taken to be      *)
(*                 injective on the keys, i.e. no SHA-1 collision)         *)
(***************************************************************************)
EXTENDS Integers, Sequences, FiniteSets, TLC

VARIABLES rules, hit_counts, unused, shadows, merges, runs, csv_rows,
          df_rules, df_final, status, dialog, written

vars == <<rules, hit_counts, unused, shadows, merges, runs, csv_rows,
          df_rules, df_final, status, dialog, written>>

None == <<>>
Some(x) == <<x>>

(***************************************************************************)
(* Bounds of the model.                                                    *)
(***************************************************************************)
MaxRules == 3

MaxLongList == 4

(***************************************************************************)
(* Strings and their order.  sorted() orders str by code point; for the    *)
(* object names used here that order is "a" < "any" < "b".                 *)
(***************************************************************************)
ValueOrder == <<"a", "any", "b">>

Rank(s) == CHOOSE i \in 1..Len(ValueOrder) : ValueOrder[i] = s

RECURSIVE sorted(_)
sorted(S) ==
    IF S = {} THEN <<>>
    ELSE IF Cardinality(S) = 1 THEN <<CHOOSE x \in S : TRUE>>
    ELSE LET m == CHOOSE x \in S : \A y \in S : Rank(x) <= Rank(y)
         IN  <<m>> \o sorted(S \ {m})

RemoveAt(l, i) == [k \in 1..(Len(l) - 1) |-> IF k < i THEN l[k] ELSE l[k + 1]]

sorted_list_as_given(l) == l

RECURSIVE sorted_list(_)
sorted_list(l) ==
    IF Len(l) <= 1 THEN l
    ELSE LET i == CHOOSE i \in DOMAIN l :
                    /\ \A j \in DOMAIN l : Rank(l[i]) <= Rank(l[j])
                    /\ \A j \in 1..(i - 1) : Rank(l[j]) # Rank(l[i])
         IN  <<l[i]>> \o sorted_list(RemoveAt(l, i))

as_set(x) == {x[i] : i \in DOMAIN x}

bool(x) == x = Some(TRUE)

or_empty(x) == IF x = None \/ x = Some("") THEN "" ELSE x[1]

json_dumps(x) == IF x = None THEN "null" ELSE x[1]

Min(S) == CHOOSE x \in S : \A y \in S : x <= y

Max(S) == CHOOSE x \in S : \A y \in S : x >= y

non_broadening_fingerprint_without_schedule(r) ==
    [action      |-> r.action,
     from        |-> sorted_list(r.fromzone),
     to          |-> sorted_list(r.tozone),
     users       |-> sorted_list(r.source_user),
     urlcat      |-> sorted_list(r.url_category),
     schedule    |-> None,
     profiles    |-> json_dumps(r.profile_setting),
     log_setting |-> r.log_setting,
     log_start   |-> bool(r.log_start),
     log_end     |-> bool(r.log_end),
     disabled    |-> r.disabled,
     neg_src     |-> r.negate_source,
     neg_dst     |-> r.negate_destination,
     prepost     |-> or_empty(r.location)]

non_broadening_fingerprint_without_zones(r) ==
    [action      |-> r.action,
     from        |-> <<>>,
     to          |-> <<>>,
     users       |-> sorted_list(r.source_user),
     urlcat      |-> sorted_list(r.url_category),
     schedule    |-> r.schedule,
     profiles    |-> json_dumps(r.profile_setting),
     log_setting |-> r.log_setting,
     log_start   |-> bool(r.log_start),
     log_end     |-> bool(r.log_end),
     disabled    |-> r.disabled,
     neg_src     |-> r.negate_source,
     neg_dst     |-> r.negate_destination,
     prepost     |-> or_empty(r.location)]

(***************************************************************************)
(* RuleLike.non_broadening_fingerprint.  The returned fp is the SHA-1 of   *)
(* repr(key); the model uses the key.                                      *)
(***************************************************************************)
non_broadening_fingerprint(r) ==
    [action      |-> r.action,
     from        |-> sorted_list(r.fromzone),
     to          |-> sorted_list(r.tozone),
     users       |-> sorted_list(r.source_user),
     urlcat      |-> sorted_list(r.url_category),
     schedule    |-> r.schedule,
     profiles    |-> json_dumps(r.profile_setting),
     log_setting |-> r.log_setting,
     log_start   |-> bool(r.log_start),
     log_end     |-> bool(r.log_end),
     disabled    |-> r.disabled,
     neg_src     |-> r.negate_source,
     neg_dst     |-> r.negate_destination,
     prepost     |-> or_empty(r.location)]

(***************************************************************************)
(* Analyzer.__init__: the overlay is merged into the rule records in       *)
(* place, by name.  dict.get gives None for a missing key; the overlay     *)
(* entries carry their three keys as Optional values.                      *)
(***************************************************************************)
ApplyOverlay_missing_as_zero(r, hc) ==
    IF r.name \in DOMAIN hc
    THEN [r EXCEPT !.hits_total = hc[r.name].total,
                   !.last_hit = hc[r.name].last,
                   !.counter_since = hc[r.name].since]
    ELSE [r EXCEPT !.hits_total = Some(0)]

ApplyOverlay(r, hc) ==
    IF r.name \in DOMAIN hc
    THEN [r EXCEPT !.hits_total = hc[r.name].total,
                   !.last_hit = hc[r.name].last,
                   !.counter_since = hc[r.name].since]
    ELSE r

AnalyzerInit(rs, hc) ==
    IF DOMAIN hc # {}
    THEN [k \in DOMAIN rs |-> ApplyOverlay(rs[k], hc)]
    ELSE rs

(***************************************************************************)
(* Shadow/order logic.                                                     *)
(***************************************************************************)
_treat_any_literal_only(values) ==
    LET s == as_set(values)
    IN  IF "any" \in s THEN {"__ANY__"} ELSE s

_treat_any(values) ==
    LET s == as_set(values)
    IN  IF s = {} \/ "any" \in s THEN {"__ANY__"} ELSE s

_intersects_set(a, b) ==
    IF "__ANY__" \in a \/ "__ANY__" \in b THEN TRUE ELSE a \cap b # {}

ActionValid(r) == r.action \in {"allow", "deny", "drop"}

rule_intersects_ignoring_schedule(r, union) ==
    /\ _intersects_set(_treat_any(r.fromzone), union.from)
    /\ _intersects_set(_treat_any(r.tozone), union.to)
    /\ _intersects_set(_treat_any(r.source), union.src)
    /\ _intersects_set(_treat_any(r.destination), union.dst)
    /\ _intersects_set(_treat_any(r.application), union.app)
    /\ _intersects_set(_treat_any(r.service), union.svc)
    /\ _intersects_set(_treat_any(r.source_user), union.user)
    /\ _intersects_set(_treat_any(r.url_category), union.urlcat)
    /\ ActionValid(r)

rule_intersects(r, union) ==
    /\ _intersects_set(_treat_any(r.fromzone), union.from)
    /\ _intersects_set(_treat_any(r.tozone), union.to)
    /\ _intersects_set(_treat_any(r.source), union.src)
    /\ _intersects_set(_treat_any(r.destination), union.dst)
    /\ _intersects_set(_treat_any(r.application), union.app)
    /\ _intersects_set(_treat_any(r.service), union.svc)
    /\ _intersects_set(_treat_any(r.source_user), union.user)
    /\ _intersects_set(_treat_any(r.url_category), union.urlcat)
    /\ r.schedule = union.schedule
    /\ ActionValid(r)

superset_by_overlap(sa, sb) ==
    LET A == _treat_any(sa)
        B == _treat_any(sb)
    IN  "__ANY__" \in A \/ (A \cap B # {})

superset_without_any(sa, sb) == _treat_any(sb) \subseteq _treat_any(sa)

superset(sa, sb) ==
    LET A == _treat_any(sa)
        B == _treat_any(sb)
    IN  "__ANY__" \in A \/ B \subseteq A

_covers(a, b) ==
    /\ superset(a.fromzone, b.fromzone)
    /\ superset(a.tozone, b.tozone)
    /\ superset(a.source, b.source)
    /\ superset(a.destination, b.destination)
    /\ superset(a.application, b.application)
    /\ superset(a.service, b.service)
    /\ superset(a.source_user, b.source_user)
    /\ superset(a.url_category, b.url_category)
    /\ a.schedule = b.schedule

ShadowFinding(earlier, later) ==
    [shadowed_rule      |-> later.name,
     shadowed_position  |-> later.position,
     shadowing_rule     |-> earlier.name,
     shadowing_position |-> earlier.position,
     reason             |-> "Earlier rule fully covers later rule",
     recommendation     |-> <<"Later rule appears shadowed by earlier rule; consider merging into the top-most rule", earlier.name, "or removing after review.">>]

ShadowPair_later_disabled_ignored(rs, i, j) ==
    /\ i < j
    /\ ~rs[i].disabled
    /\ rs[i].action = rs[j].action
    /\ _covers(rs[i], rs[j])

ShadowPair_either_order(rs, i, j) ==
    /\ i # j
    /\ ~rs[i].disabled
    /\ ~rs[j].disabled
    /\ rs[i].action = rs[j].action
    /\ _covers(rs[i], rs[j])

ShadowPair(rs, i, j) ==
    /\ i < j
    /\ ~rs[i].disabled
    /\ ~rs[j].disabled
    /\ rs[i].action = rs[j].action
    /\ _covers(rs[i], rs[j])

\* The index pairs in the order of the two nested loops: i ascending, then j.
IndexPairs_inner_first(n) == [k \in 1..(n * n) |-> <<((k - 1) % n) + 1, ((k - 1) \div n) + 1>>]

IndexPairs(n) == [k \in 1..(n * n) |-> <<((k - 1) \div n) + 1, ((k - 1) % n) + 1>>]

find_shadowed_rules_accumulating(rs) ==
    LET Hit(p) == ShadowPair(rs, p[1], p[2])
        hits == SelectSeq(IndexPairs(Len(rs)), Hit)
    IN  shadows \o [k \in DOMAIN hits |-> ShadowFinding(rs[hits[k][1]], rs[hits[k][2]])]

find_shadowed_rules(rs) ==
    LET Hit(p) == ShadowPair(rs, p[1], p[2])
        hits == SelectSeq(IndexPairs(Len(rs)), Hit)
    IN  [k \in DOMAIN hits |-> ShadowFinding(rs[hits[k][1]], rs[hits[k][2]])]

(***************************************************************************)
(* Order-sensitivity scan: the first rule of the list, in list order,      *)
(* whose position is strictly between i and j, whose lower-cased action    *)
(* is deny or drop and which intersects the union.                         *)
(***************************************************************************)
lower(a) == IF a = "Deny" THEN "deny" ELSE IF a = "DROP" THEN "drop" ELSE a

Intervening_inclusive(r, i, j, union) ==
    /\ ~(r.position < i \/ r.position > j)
    /\ lower(r.action) \in {"deny", "drop"}
    /\ rule_intersects(r, union)

Intervening_enabled_only(r, i, j, union) ==
    /\ ~(r.position <= i \/ r.position >= j)
    /\ ~r.disabled
    /\ lower(r.action) \in {"deny", "drop"}
    /\ rule_intersects(r, union)

Intervening_any_action(r, i, j, union) ==
    /\ ~(r.position <= i \/ r.position >= j)
    /\ rule_intersects([r EXCEPT !.action = "deny"], union)

Intervening(r, i, j, union) ==
    /\ ~(r.position <= i \/ r.position >= j)
    /\ lower(r.action) \in {"deny", "drop"}
    /\ rule_intersects(r, union)

_order_sensitive_between(rs, i, j, union) ==
    LET Hit(r) == Intervening(r, i, j, union)
        found == SelectSeq(rs, Hit)
    IN  IF found # <<>>
        THEN <<TRUE, <<"Intervening deny/drop at position", found[1].position, "intersects proposed union">>>>
        ELSE <<FALSE, <<>>>>

(***************************************************************************)
(* Analyzer.propose_merges.                                                *)
(***************************************************************************)
\* buckets: the fingerprints in the order of their first rule (dict order).
BucketKeys(rs) ==
    LET fps == [k \in DOMAIN rs |-> non_broadening_fingerprint(rs[k])]
        First(k) == \A m \in 1..(k - 1) : fps[m] # fps[k]
        idx == SelectSeq([k \in DOMAIN rs |-> k], First)
    IN  [k \in DOMAIN idx |-> fps[idx[k]]]

Bucket_by_action(rs, fp) ==
    LET In(r) == r.action = fp.action
    IN  SelectSeq(rs, In)

Bucket(rs, fp) ==
    LET In(r) == non_broadening_fingerprint(r) = fp
    IN  SelectSeq(rs, In)

HasNegation_source_only(group) == \E k \in DOMAIN group : group[k].negate_source

HasNegation(group) ==
    \E k \in DOMAIN group : group[k].negate_source \/ group[k].negate_destination

any_flags(g) ==
    <<"any" \in as_set(g.application),
      "any" \in as_set(g.service),
      "any" \in as_set(g.source),
      "any" \in as_set(g.destination)>>

MixedAny(group) == Cardinality({any_flags(group[k]) : k \in DOMAIN group}) > 1

Skipped_singleton_kept(group) == Len(group) < 1 \/ HasNegation(group) \/ MixedAny(group)

Skipped_without_size_test(group) == HasNegation(group) \/ MixedAny(group)

Skipped(group) == Len(group) < 2 \/ HasNegation(group) \/ MixedAny(group)

UnionOf_first_member_only(group, field) == sorted(as_set(group[1][field]))

UnionOf(group, field) == sorted(UNION {as_set(group[k][field]) : k \in DOMAIN group})

ScanUnion(group, apps, svcs, srcs, dsts) ==
    [from     |-> _treat_any(group[1].fromzone),
     to       |-> _treat_any(group[1].tozone),
     src      |-> _treat_any(srcs),
     dst      |-> _treat_any(dsts),
     app      |-> _treat_any(apps),
     svc      |-> _treat_any(svcs),
     user     |-> _treat_any(group[1].source_user),
     urlcat   |-> _treat_any(group[1].url_category),
     schedule |-> group[1].schedule]

Confidence_always_high(order_sensitive) == "High"

Confidence(order_sensitive) == IF ~order_sensitive THEN "High" ELSE "Low"

Recommendation(order_sensitive) ==
    IF ~order_sensitive
    THEN "Merge: Identical qualifiers; union of objects is equivalent; no intervening deny."
    ELSE "Review: Intervening deny/ordering may affect behavior; manual confirmation required."

Proposal(rs, group) ==
    LET apps == UnionOf(group, "application")
        svcs == UnionOf(group, "service")
        srcs == UnionOf(group, "source")
        dsts == UnionOf(group, "destination")
        positions == [k \in DOMAIN group |-> group[k].position]
        i == Min(as_set(positions))
        j == Max(as_set(positions))
        union == ScanUnion(group, apps, svcs, srcs, dsts)
        scan == _order_sensitive_between(rs, i, j, union)
    IN  [proposed_name      |-> <<"merge_of">> \o [k \in 1..Min({3, Len(group)}) |-> group[k].name],
         source_rules       |-> [k \in DOMAIN group |-> group[k].name],
         positions          |-> positions,
         apps_union         |-> apps,
         services_union     |-> svcs,
         sources_union      |-> srcs,
         destinations_union |-> dsts,
         order_sensitive    |-> scan[1],
         order_reason       |-> scan[2],
         confidence         |-> Confidence(scan[1]),
         recommendation     |-> Recommendation(scan[1])]

propose_merges_skipping_shadowed(rs) ==
    LET Reported(r) == \E k \in DOMAIN shadows : shadows[k].shadowed_rule = r.name
        Left(r) == ~Reported(r)
        left == SelectSeq(rs, Left)
        keys == BucketKeys(left)
        Kept(fp) == ~Skipped(Bucket(left, fp))
        kept == SelectSeq(keys, Kept)
    IN  [k \in DOMAIN kept |-> Proposal(rs, Bucket(left, kept[k]))]

propose_merges(rs) ==
    LET keys == BucketKeys(rs)
        Kept(fp) == ~Skipped(Bucket(rs, fp))
        kept == SelectSeq(keys, Kept)
    IN  [k \in DOMAIN kept |-> Proposal(rs, Bucket(rs, kept[k]))]

(***************************************************************************)
(* Analyzer.unused_rules_zero_hits.                                        *)
(***************************************************************************)
IsUnused_falsy(r) == r.hits_total = None \/ r.hits_total[1] = 0

IsUnused(r) == r.hits_total # None /\ r.hits_total[1] = 0

unused_rules_zero_hits(rs) == SelectSeq(rs, IsUnused)

(***************************************************************************)
(* CSVReader.fetch_rules.  A row of the export is modelled by its Name,    *)
(* Action and 'Rule Usage Hit Count' cells; the other columns are absent   *)
(* from the file, so row.get gives their defaults.  A hit-count cell is    *)
(* None when the file has no such column, else the text of the cell.       *)
(* pandas reads a column of integers and empty cells as floats, and a      *)
(* column holding any other text as strings; an empty cell is NaN.         *)
(***************************************************************************)
IntOf == ("0" :> 0) @@ ("7" :> 7)

FloatStr == ("0" :> "0.0") @@ ("7" :> "7.0")

isdigit(s) == s \in DOMAIN IntOf

\* str(row.get('Rule Usage Hit Count', '0')) for row k of the frame.
hit_count_str(rows, k) ==
    LET cell == rows[k].HitCount
        column == {rows[m].HitCount : m \in DOMAIN rows}
        AsFloat == Some("") \in column /\ \A c \in column : c = Some("") \/ isdigit(c[1])
    IN  IF cell = None THEN "0"
        ELSE IF cell = Some("") THEN "nan"
        ELSE IF AsFloat THEN FloatStr[cell[1]]
        ELSE cell[1]

csv_hits_total(hit_count) == IF isdigit(hit_count) THEN Some(IntOf[hit_count]) ELSE Some(0)

\* _parse_list_field of an absent column's default 'any'.
_parse_list_field_any == <<"any">>

fetch_rules(rows) ==
    [k \in DOMAIN rows |->
        [name |-> rows[k].Name, position |-> k, action |-> lower(rows[k].Action),
         fromzone |-> _parse_list_field_any, tozone |-> _parse_list_field_any,
         source |-> _parse_list_field_any, destination |-> _parse_list_field_any,
         application |-> _parse_list_field_any, service |-> _parse_list_field_any,
         source_user |-> _parse_list_field_any, url_category |-> <<>>,
         schedule |-> None, log_setting |-> None, log_start |-> None, log_end |-> None,
         profile_setting |-> None, disabled |-> FALSE, negate_source |-> FALSE,
         negate_destination |-> FALSE, location |-> None,
         hits_total |-> csv_hits_total(hit_count_str(rows, k)),
         last_hit |-> Some(""), counter_since |-> Some("")]]

(***************************************************************************)
(* Inputs.  A rule list is what a reader hands to the Analyzer: names      *)
(* unique, position = 1-based place in the list.  Four families of lists   *)
(* are drawn: lists of rules that differ from a base rule in one scalar    *)
(* qualifier; for each match dimension d, lists of rules that differ in d  *)
(* (empty, "any", another object, two objects) or in the action; and       *)
(* lists of rules that differ in the spelling of the action; and lists of  *)
(* allow rules with disabled or scheduled deny rules.  Lists of            *)
(* allow and deny rules are also drawn one rule longer, the length at      *)
(* which the order of the findings tells the two loops apart.  The lists   *)
(* made of HitShapes are analysed with each hit-count overlay, in any      *)
(* succession; the others with the empty overlay.                          *)
(***************************************************************************)
Dims == {"fromzone", "tozone", "source", "destination", "application", "service", "source_user", "url_category"}

RuleNames == <<"r1", "r2", "r3", "r4", "r5">>

BaseRule(act) ==
    [name |-> "", position |-> 0, action |-> act,
     fromzone |-> <<"a">>, tozone |-> <<"a">>, source |-> <<"a">>, destination |-> <<"a">>,
     application |-> <<"a">>, service |-> <<"a">>, source_user |-> <<"a">>, url_category |-> <<"a">>,
     schedule |-> None, log_setting |-> None, log_start |-> None, log_end |-> None,
     profile_setting |-> None, disabled |-> FALSE, negate_source |-> FALSE,
     negate_destination |-> FALSE, location |-> None,
     hits_total |-> None, last_hit |-> None, counter_since |-> None]

ScalarShapes ==
    {BaseRule("allow"), BaseRule("deny"), BaseRule("drop"),
     [BaseRule("allow") EXCEPT !.schedule = Some("s1")],
     [BaseRule("allow") EXCEPT !.negate_source = TRUE],
     [BaseRule("allow") EXCEPT !.negate_destination = TRUE],
     [BaseRule("allow") EXCEPT !.disabled = TRUE]}

DimShapes(d) ==
    {BaseRule("allow"), BaseRule("deny"), [BaseRule("allow") EXCEPT !.schedule = Some("s1")]}
    \cup {[BaseRule("allow") EXCEPT ![d] = v] : v \in {<<>>, <<"any">>, <<"b">>, <<"a", "b">>}}

ActionShapes ==
    {BaseRule("allow"), BaseRule("deny"), BaseRule("Deny"), BaseRule("DROP"), BaseRule("reset-both")}

ScanShapes ==
    {BaseRule("allow"),
     [BaseRule("allow") EXCEPT !.schedule = Some("s1")],
     [BaseRule("deny") EXCEPT !.disabled = TRUE],
     [BaseRule("deny") EXCEPT !.schedule = Some("s1")]}

LongListShapes == {BaseRule("allow"), BaseRule("deny")}

HitShapes == {BaseRule("allow"), BaseRule("deny"), [BaseRule("allow") EXCEPT !.disabled = TRUE]}

Placed(l) == [k \in DOMAIN l |-> [l[k] EXCEPT !.name = RuleNames[k], !.position = k]]

ListUpTo(rs, shapes, max) == \E n \in 0..max : \E l \in [1..n -> shapes] : rs = Placed(l)

ListOf(rs, shapes) == ListUpTo(rs, shapes, MaxRules)

HitEntry(n) == [total |-> Some(n), last |-> Some("t1"), since |-> Some("t0")]

EmptyOverlay == [n \in {} |-> None]

Overlays ==
    {EmptyOverlay,
     ("r1" :> HitEntry(0)) @@ ("r2" :> HitEntry(7)) @@ ("ghost" :> HitEntry(0)),
     ("r2" :> HitEntry(0)) @@ ("r3" :> HitEntry(0))}

\* The shape of a rule: the rule without its name, position and hit data.
Shape(r) == [r EXCEPT !.name = "", !.position = 0, !.hits_total = None, !.last_hit = None, !.counter_since = None]

HitInputs(rs) ==
    IF \A k \in DOMAIN rs : Shape(rs[k]) \in HitShapes THEN Overlays ELSE {EmptyOverlay}

Cells == {"", "abc", "0", "7"}

Row(k, cell) == [Name |-> RuleNames[k], Action |-> "allow", HitCount |-> cell]

\* The files: with a hit-count column of any cells, or without the column.
RowsOf(rows) ==
    \E n \in 0..MaxRules :
        \/ \E l \in [1..n -> Cells] : rows = [k \in 1..n |-> Row(k, Some(l[k]))]
        \/ rows = [k \in 1..n |-> Row(k, None)]

(***************************************************************************)
(* The data frames.  A frame is the sequence of its rows; of a row the     *)
(* columns Position, Name, Action and 'Rule Usage Hit Count' are kept, and *)
(* in the final frame Recommendation, the sequence of the lines that the   *)
(* code joins with " | ".  A list member that is None (the text of an      *)
(* empty <member/> element read by _fetch_rules_direct) makes str.join     *)
(* raise TypeError in to_row.                                              *)
(***************************************************************************)
NoneMember == "<None>"

ListFields == {"fromzone", "tozone", "source", "destination", "application", "service", "source_user", "url_category"}

to_row(r) ==
    [Position |-> r.position,
     Name     |-> r.name,
     Action   |-> r.action,
     HitCount |-> IF r.hits_total = None THEN 0 ELSE r.hits_total[1]]

to_row_raises(r) == \E f \in ListFields : NoneMember \in as_set(r[f])

RECURSIVE sort_values(_)
sort_values(rows) ==
    IF rows = <<>> THEN <<>>
    ELSE LET least == Min({rows[k].Position : k \in DOMAIN rows})
             k == CHOOSE m \in DOMAIN rows :
                      /\ rows[m].Position = least
                      /\ \A n \in 1..(m - 1) : rows[n].Position # least
         IN  <<rows[k]>> \o sort_values(RemoveAt(rows, k))

build_dataframe(rs) == sort_values([k \in DOMAIN rs |-> to_row(rs[k])])

build_dataframe_raises(rs) == \E k \in DOMAIN rs : to_row_raises(rs[k])

RecLine(kind, names, positions, confidence, reason) ==
    [kind |-> kind, names |-> names, positions |-> positions, confidence |-> confidence, reason |-> reason]

RECURSIVE Flatten(_)
Flatten(ss) == IF ss = <<>> THEN <<>> ELSE Head(ss) \o Flatten(Tail(ss))

\* recs.get(n, []): the lines appended for the name n, unused rules first,
\* then the shadow findings, then the proposals.
recs(n, unused_in, shadows_in, merges_in) ==
    LET ForUnused(r) ==
            IF r.name = n
            THEN <<RecLine("Disable: 0 hits over observation window.", <<>>, <<>>, "", <<>>)>>
            ELSE <<>>
        ForShadow(f) ==
            IF f.shadowed_rule = n
            THEN <<RecLine("Shadowed by", <<f.shadowing_rule>>, <<f.shadowing_position>>, "", <<>>)>>
            ELSE <<>>
        ForMerge(p) ==
            LET Other(k) == p.source_rules[k] # n
                others == SelectSeq([k \in 1..Min({Len(p.source_rules), Len(p.positions)}) |-> k], Other)
                line == RecLine("Merge-candidate with",
                                [k \in DOMAIN others |-> p.source_rules[others[k]]],
                                [k \in DOMAIN others |-> p.positions[others[k]]],
                                p.confidence, p.order_reason)
                Mine(k) == p.source_rules[k] = n
            IN  [k \in DOMAIN SelectSeq([k \in DOMAIN p.source_rules |-> k], Mine) |-> line]
    IN  Flatten([k \in DOMAIN unused_in |-> ForUnused(unused_in[k])])
        \o Flatten([k \in DOMAIN shadows_in |-> ForShadow(shadows_in[k])])
        \o Flatten([k \in DOMAIN merges_in |-> ForMerge(merges_in[k])])

dataframe_with_recommendations(df, unused_in, shadows_in, merges_in) ==
    sort_values([k \in DOMAIN df |->
        [Position       |-> df[k].Position,
         Name           |-> df[k].Name,
         Action         |-> df[k].Action,
         HitCount       |-> df[k].HitCount,
         Recommendation |-> recs(df[k].Name, unused_in, shadows_in, merges_in)]])

(***************************************************************************)
(* What the App shows and keeps.  status is the status line: its text and, *)
(* after a completed analysis, the four counts it reports.  dialog is the  *)
(* window opened last: a message box with its text, or the Summary window  *)
(* (whose text is the first 25 rows of df_final).  written is what the     *)
(* export has created: the output directory, the CSV and the XLSX report.  *)
(***************************************************************************)
Status(text) == [text |-> text, counts |-> <<>>]

Dialog(kind, message) == [kind |-> kind, message |-> message]

NoDialog == Dialog("", "")

RunFirst == Dialog("showinfo", "Run analysis first.")

FreshApp ==
    /\ df_rules = None
    /\ df_final = None
    /\ status = Status("Ready to analyze PAN-OS policies...")
    /\ dialog = NoDialog
    /\ written = {}

(***************************************************************************)
(* State machine.                                                          *)
(***************************************************************************)
Init ==
    /\ \/ ListOf(rules, ScalarShapes)
       \/ \E d \in Dims : ListOf(rules, DimShapes(d))
       \/ ListOf(rules, ActionShapes)
       \/ ListOf(rules, ScanShapes)
       \/ ListUpTo(rules, LongListShapes, MaxLongList)
    /\ hit_counts = EmptyOverlay
    /\ unused = <<>>
    /\ shadows = <<>>
    /\ merges = <<>>
    /\ runs = 0
    /\ csv_rows = <<>>
    /\ FreshApp

\* App._process_analysis_results(rules, hits, source): Analyzer(rules, hits),
\* then the detectors.  hit_counts keeps the overlay of the latest run.  runs
\* is 0 before the first analysis, 1 after it and 2 after every later one:
\* the analysis can be repeated without end.
_process_analysis_results_keeping_merges(rules_in, hits) ==
    /\ LET rs == AnalyzerInit(rules_in, hits)
       IN  /\ rules' = rs
           /\ df_rules' = Some(build_dataframe(rs))
           /\ unused' = unused_rules_zero_hits(rs)
           /\ shadows' = find_shadowed_rules(rs)
           /\ merges' = merges
           /\ df_final' = Some(dataframe_with_recommendations(df_rules'[1], unused', shadows', merges'))
           /\ status' = [text |-> "Analysis complete!",
                         counts |-> <<Len(rules_in), Len(unused'), Len(shadows'), Len(merges')>>]
    /\ runs' = IF runs < 2 THEN runs + 1 ELSE runs
    /\ hit_counts' = hits

_process_analysis_results(rules_in, hits) ==
    /\ LET rs == AnalyzerInit(rules_in, hits)
       IN  /\ rules' = rs
           /\ df_rules' = Some(build_dataframe(rs))
           /\ unused' = unused_rules_zero_hits(rs)
           /\ shadows' = find_shadowed_rules(rs)
           /\ merges' = propose_merges(rs)
           /\ df_final' = Some(dataframe_with_recommendations(df_rules'[1], unused', shadows', merges'))
           /\ status' = [text |-> "Analysis complete!",
                         counts |-> <<Len(rules_in), Len(unused'), Len(shadows'), Len(merges')>>]
    /\ runs' = IF runs < 2 THEN runs + 1 ELSE runs
    /\ hit_counts' = hits

\* The except branch of the two analyse handlers: an error box and the
\* status line; the results are not touched.
AnalysisError(message, text) ==
    /\ dialog' = Dialog("showerror", message)
    /\ status' = Status(text)
    /\ UNCHANGED <<rules, hit_counts, unused, shadows, merges, runs, df_rules, df_final>>

\* The early return when the reader found no rule.
NoRulesFound(message, text) ==
    /\ dialog' = Dialog("showwarning", message)
    /\ status' = Status(text)
    /\ UNCHANGED <<rules, hit_counts, unused, shadows, merges, runs, df_rules, df_final>>

\* The early return on a missing setting: an error box, nothing else.
MissingSetting(message) ==
    /\ dialog' = Dialog("showerror", message)
    /\ UNCHANGED <<rules, hit_counts, unused, shadows, merges, runs, df_rules, df_final, status>>

\* An analysis of the rule records at hand with an overlay.
Analyze ==
    /\ \E hits \in HitInputs(rules) : _process_analysis_results(rules, hits)
    /\ UNCHANGED <<csv_rows, dialog, written>>

Next == Analyze

Spec == Init /\ [][Next]_vars

\* App._run_csv_analyze: the file is read anew, an empty result ends the
\* handler, and the hit counts are those embedded in the rules.
\* csv_file is the path in the entry field; csv_rows is the content of the
\* one file that exists.
CsvFiles == {"", "missing.csv", "policy.csv"}

exists(path) == path = "policy.csv"

_run_csv_analyze(csv_file) ==
    /\ IF csv_file = ""
       THEN MissingSetting("Please select a CSV file for import.")
       ELSE IF ~exists(csv_file)
       THEN MissingSetting("CSV file not found")
       ELSE LET fetched == fetch_rules(csv_rows)
            IN  IF fetched = <<>>
                THEN NoRulesFound("No security rules found in CSV file.", "No security rules found in CSV file")
                ELSE IF build_dataframe_raises(fetched)
                THEN AnalysisError("CSV Import Error", "Error during CSV analysis.")
                ELSE _process_analysis_results(fetched, EmptyOverlay) /\ UNCHANGED dialog
    /\ UNCHANGED <<csv_rows, written>>

InitCSV ==
    /\ RowsOf(csv_rows)
    /\ rules = <<>>
    /\ hit_counts = EmptyOverlay
    /\ unused = <<>>
    /\ shadows = <<>>
    /\ merges = <<>>
    /\ runs = 0
    /\ FreshApp

NextCSV == \E csv_file \in CsvFiles : _run_csv_analyze(csv_file)

SpecCSV == InitCSV /\ [][NextCSV]_vars

(***************************************************************************)
(* The App: the analyse button in either mode, the preview button and the  *)
(* export button, pressed in any order.  What the firewall answers is an   *)
(* input of each API attempt: the client cannot be built (an exception),   *)
(* or fetch_rules returns a list (empty when no VSYS has rules) and        *)
(* fetch_hit_counts an overlay.                                            *)
(***************************************************************************)
\* A rule as _fetch_rules_direct builds it from an entry whose <source>
\* holds an empty <member/>.
RuleWithNoneMember == [BaseRule("allow") EXCEPT !.source = <<NoneMember>>, !.source_user = <<>>, !.url_category = <<>>]

\* The policies the firewall may hold: none, one rule, two rules that match
\* the same traffic with equal or different actions, and a policy whose
\* rule cannot be put in a row.
ApiLists ==
    {Placed(<<>>),
     Placed(<<BaseRule("allow")>>),
     Placed(<<BaseRule("allow"), BaseRule("allow")>>),
     Placed(<<BaseRule("allow"), BaseRule("deny")>>),
     Placed(<<BaseRule("deny"), BaseRule("deny")>>),
     Placed(<<RuleWithNoneMember>>)}

ApiAnswer(raised, rs, hits) == [raised |-> raised, rules |-> rs, hits |-> hits]

ApiAnswers ==
    {ApiAnswer(TRUE, <<>>, EmptyOverlay)}
    \cup {ApiAnswer(FALSE, rs, hits) : rs \in ApiLists, hits \in Overlays}

_run_api_analyze(api_url, api_key, answer) ==
    /\ IF api_url = "" \/ api_key = ""
       THEN MissingSetting("API URL and API Key are required.")
       ELSE IF answer.raised
       THEN AnalysisError("API Error", "Error during API analysis.")
       ELSE IF answer.rules = <<>>
       THEN NoRulesFound("No security rules found in any VSYS.", "No security rules found in any VSYS")
       ELSE IF build_dataframe_raises(AnalyzerInit(answer.rules, answer.hits))
       THEN AnalysisError("API Error", "Error during API analysis.")
       ELSE _process_analysis_results(answer.rules, answer.hits) /\ UNCHANGED dialog
    /\ UNCHANGED <<csv_rows, written>>

Modes == {"API Connection", "CSV Import"}

Credentials == {<<"", "">>, <<"fw", "">>, <<"", "key">>, <<"fw", "key">>}

run_analyze(mode) ==
    IF mode = "API Connection"
    THEN \E c \in Credentials : \E answer \in ApiAnswers :
             /\ (c # <<"fw", "key">> => answer = ApiAnswer(TRUE, <<>>, EmptyOverlay))
             /\ _run_api_analyze(c[1], c[2], answer)
    ELSE \E csv_file \in CsvFiles : _run_csv_analyze(csv_file)

preview_summary_ungated ==
    /\ dialog' = Dialog("Summary", "Analysis Summary")
    /\ UNCHANGED <<rules, hit_counts, unused, shadows, merges, runs, csv_rows, df_rules, df_final, status, written>>

preview_summary ==
    /\ IF df_final = None
       THEN dialog' = RunFirst
       ELSE dialog' = Dialog("Summary", "Analysis Summary")
    /\ UNCHANGED <<rules, hit_counts, unused, shadows, merges, runs, csv_rows, df_rules, df_final, status, written>>

\* What happens to the export: os.makedirs raises (outside the try, so the
\* handler ends there), the CSV report cannot be opened, the CSV report is
\* created and a later step raises, or both reports are written.
ExportOutcomes == {"makedirs raises", "csv raises", "xlsx raises", "exported"}

export_all(outcome) ==
    /\ IF df_final = None
       THEN dialog' = RunFirst /\ UNCHANGED <<status, written>>
       ELSE IF outcome = "makedirs raises"
       THEN UNCHANGED <<dialog, status, written>>
       ELSE IF outcome = "csv raises"
       THEN /\ written' = written \cup {"outdir"}
            /\ dialog' = Dialog("showerror", "Export error")
            /\ UNCHANGED status
       ELSE IF outcome = "xlsx raises"
       THEN /\ written' = written \cup {"outdir", "csv"}
            /\ dialog' = Dialog("showerror", "Export error")
            /\ UNCHANGED status
       ELSE /\ written' = written \cup {"outdir", "csv", "xlsx"}
            /\ dialog' = Dialog("showinfo", "Exported")
            /\ status' = Status("Export complete! CSV and XLSX with both tabs generated successfully.")
    /\ UNCHANGED <<rules, hit_counts, unused, shadows, merges, runs, csv_rows, df_rules, df_final>>

\* The file at hand: no rows, one rule never hit, or two rules of which the
\* second has an empty hit-count cell.
AppFiles ==
    {<<>>,
     <<Row(1, Some("0"))>>,
     <<Row(1, Some("7")), Row(2, Some(""))>>}

InitApp ==
    /\ csv_rows \in AppFiles
    /\ rules = <<>>
    /\ hit_counts = EmptyOverlay
    /\ unused = <<>>
    /\ shadows = <<>>
    /\ merges = <<>>
    /\ runs = 0
    /\ FreshApp

NextApp ==
    \/ \E mode \in Modes : run_analyze(mode)
    \/ preview_summary
    \/ \E outcome \in ExportOutcomes : export_all(outcome)

SpecApp == InitApp /\ [][NextApp]_vars

(***************************************************************************)
(* Vocabulary of the properties, stated on the lists as the rule records   *)
(* hold them, without the Analyzer's sentinel.                             *)
(***************************************************************************)
Elems(v) == {v[k] : k \in DOMAIN v}

\* A dimension is universal when its list is empty or holds "any".
Universal(v) == v = <<>> \/ "any" \in Elems(v)

Analysed == runs > 0

RuleNamed(n) == CHOOSE r \in Elems(rules) : r.name = n

Members(p) == {RuleNamed(p.source_rules[k]) : k \in DOMAIN p.source_rules}

Enabled2(a, b) == ~a.disabled /\ ~b.disabled

HasFinding(a, b) ==
    \E k \in DOMAIN shadows :
        /\ shadows[k].shadowing_rule = a.name
        /\ shadows[k].shadowing_position = a.position
        /\ shadows[k].shadowed_rule = b.name
        /\ shadows[k].shadowed_position = b.position

\* The set a dimension of b denotes lies within the set a's dimension denotes:
\* a is universal, or b is enumerated and each of its objects is one of a's.
\* (A universal b denotes every object, so only a universal a contains it.)
DimSuperset(a, b, d) == Universal(a[d]) \/ (~Universal(b[d]) /\ Elems(b[d]) \subseteq Elems(a[d]))

(***************************************************************************)
(* C1  Shadow superset law.  For every pair of enabled rules A before B    *)
(* in the list with equal action and equal schedule, the findings hold     *)
(* (shadowing = A, shadowed = B) exactly when A is universal or a          *)
(* superset of B in each of the eight match dimensions; every such         *)
(* earlier rule is reported, not only the nearest.                         *)
(***************************************************************************)
C1_ShadowSupersetLaw ==
    Analysed =>
        \A i \in DOMAIN rules : \A j \in DOMAIN rules :
            (/\ i < j
             /\ Enabled2(rules[i], rules[j])
             /\ rules[i].action = rules[j].action
             /\ rules[i].schedule = rules[j].schedule)
            => (HasFinding(rules[i], rules[j])
                  <=> \A d \in Dims : DimSuperset(rules[i], rules[j], d))

\* Three rules: the last is shadowed by the first (through "any" or a strict
\* superset) and by the second, and the second is not covered by the last.
C1_Witness ==
    /\ Analysed
    /\ Len(rules) = 3
    /\ HasFinding(rules[1], rules[3])
    /\ HasFinding(rules[2], rules[3])
    /\ \E d \in Dims : rules[1][d] # rules[3][d]
    /\ ~HasFinding(rules[1], rules[2])

(***************************************************************************)
(* C4  Unused vs unmeasured.  The unused collection holds exactly the      *)
(* rules whose hits_total is present and equal to 0: never a rule whose    *)
(* hits_total is absent, never a rule with hits_total > 0.                 *)
(***************************************************************************)
C4_UnusedExactlyZeroHits ==
    Analysed =>
        /\ Elems(unused) = {r \in Elems(rules) : r.hits_total = Some(0)}
        /\ \A k \in DOMAIN unused : unused[k].hits_total # None /\ ~(unused[k].hits_total[1] > 0)

C4_Witness ==
    /\ Analysed
    /\ \E r \in Elems(rules) : r.hits_total = None /\ r \notin Elems(unused)
    /\ \E r \in Elems(rules) : r.hits_total = Some(0) /\ r \in Elems(unused)
    /\ \E r \in Elems(rules) : r.hits_total # None /\ r.hits_total[1] > 0 /\ r \notin Elems(unused)

(***************************************************************************)
(* Vocabulary of the merge proposals.                                      *)
(***************************************************************************)
MergeDims == {"application", "service", "source", "destination"}

DimIntersects(x, y) == Universal(x) \/ Universal(y) \/ Elems(x) \cap Elems(y) # {}

\* r meets the proposed union in every entry of it: the four unioned
\* dimensions of the proposal, the four dimensions and the schedule that
\* the members share.
IntersectsProposal(r, p) ==
    LET m == RuleNamed(p.source_rules[1])
    IN  /\ DimIntersects(r.fromzone, m.fromzone)
        /\ DimIntersects(r.tozone, m.tozone)
        /\ DimIntersects(r.source, p.sources_union)
        /\ DimIntersects(r.destination, p.destinations_union)
        /\ DimIntersects(r.application, p.apps_union)
        /\ DimIntersects(r.service, p.services_union)
        /\ DimIntersects(r.source_user, m.source_user)
        /\ DimIntersects(r.url_category, m.url_category)
        /\ r.schedule = m.schedule

Lowest(p) == Min(Elems(p.positions))

Highest(p) == Max(Elems(p.positions))

InterveningDenies(p) ==
    {r \in Elems(rules) :
        /\ Lowest(p) < r.position
        /\ r.position < Highest(p)
        /\ r.action \in {"deny", "drop"}
        /\ IntersectsProposal(r, p)}

\* Two rules that are the same but for name, position and hit data.
Masked(r) == [r EXCEPT !.name = "", !.position = 0, !.hits_total = None, !.last_hit = None, !.counter_since = None]

SameRule(a, b) == Masked(a) = Masked(b)

SameMatch(a, b) == Masked([a EXCEPT !.action = ""]) = Masked([b EXCEPT !.action = ""])

Plain(r) == ~r.negate_source /\ ~r.negate_destination

ProposalOf(names) == {merges[k] : k \in {k \in DOMAIN merges : merges[k].source_rules = names}}

(***************************************************************************)
(* C2  Order-sensitivity trigger.  A proposal is order-sensitive exactly   *)
(* when some rule positioned strictly between the group's lowest and       *)
(* highest position has action deny or drop and intersects the proposed    *)
(* union in every dimension; order_reason then names such a rule's         *)
(* position.  With A (1, allow), B (2, deny), C (3, allow) matching the    *)
(* same traffic the A+C proposal is order-sensitive citing position 2;     *)
(* without B, or with B's action allow, it is not order-sensitive.         *)
(***************************************************************************)
C2_OrderSensitivityTrigger ==
    Analysed =>
        /\ \A k \in DOMAIN merges :
              /\ merges[k].order_sensitive <=> InterveningDenies(merges[k]) # {}
              /\ merges[k].order_sensitive =>
                    /\ Len(merges[k].order_reason) = 3
                    /\ merges[k].order_reason[2] \in {r.position : r \in InterveningDenies(merges[k])}
        /\ (/\ Len(rules) = 3
            /\ rules[1].action = "allow" /\ rules[2].action = "deny" /\ Plain(rules[1])
            /\ SameRule(rules[1], rules[3]) /\ SameMatch(rules[1], rules[2]))
           => \E p \in ProposalOf(<<rules[1].name, rules[3].name>>) :
                 p.order_sensitive /\ p.order_reason[2] = 2
        /\ (/\ Len(rules) = 2
            /\ rules[1].action = "allow" /\ Plain(rules[1])
            /\ SameRule(rules[1], rules[2]))
           => \E p \in ProposalOf(<<rules[1].name, rules[2].name>>) : ~p.order_sensitive
        /\ (/\ Len(rules) = 3
            /\ rules[1].action = "allow" /\ Plain(rules[1])
            /\ SameRule(rules[1], rules[2]) /\ SameRule(rules[1], rules[3]))
           => \E p \in ProposalOf(<<rules[1].name, rules[2].name, rules[3].name>>) : ~p.order_sensitive

\* The A, B, C example: allow, deny, allow on the same traffic.
C2_Witness ==
    /\ Analysed
    /\ Len(rules) = 3
    /\ rules[1].action = "allow" /\ rules[2].action = "deny"
    /\ SameRule(rules[1], rules[3]) /\ SameMatch(rules[1], rules[2])
    /\ \E p \in ProposalOf(<<"r1", "r3">>) : p.order_sensitive /\ p.order_reason[2] = 2

(***************************************************************************)
(* C3  The order-sensitivity scan considers only rules other than the      *)
(* members of the merge group: an order-sensitive proposal has an          *)
(* intervening deny/drop rule that is not one of its source rules; a       *)
(* bucket of three or more deny (or drop) rules with no other rule         *)
(* between them is not order-sensitive.                                    *)
(***************************************************************************)
C3_OnlyOtherRulesScanned ==
    Analysed =>
        \A k \in DOMAIN merges :
            merges[k].order_sensitive =>
                \E r \in InterveningDenies(merges[k]) : r \notin Members(merges[k])

(***************************************************************************)
(* C5  Wildcard mixing is rejected.  In no proposal is one source rule     *)
(* wildcarded (holds "any" or is empty) and another enumerated in any of   *)
(* application, service, source, destination; so no proposal's union is    *)
(* narrower or broader than what a member matched in that dimension.       *)
(***************************************************************************)
C5_NoWildcardMixing ==
    Analysed =>
        \A k \in DOMAIN merges : \A d \in MergeDims :
            \A a \in Members(merges[k]) : \A b \in Members(merges[k]) :
                Universal(a[d]) <=> Universal(b[d])

(***************************************************************************)
(* C6  Negation exclusion.  No proposal has a source rule with             *)
(* negate_source or negate_destination set: a fingerprint bucket with      *)
(* such a member yields no proposal, whatever its size.                    *)
(***************************************************************************)
C6_NegationExclusion ==
    Analysed =>
        /\ \A k \in DOMAIN merges : \A m \in Members(merges[k]) : Plain(m)
        /\ \A r \in Elems(rules) :
              ~Plain(r) => \A k \in DOMAIN merges :
                              /\ r.name \notin Elems(merges[k].source_rules)
                              /\ \A m \in Members(merges[k]) :
                                    non_broadening_fingerprint(m) # non_broadening_fingerprint(r)

\* A bucket of three rules negating the destination, which yields nothing.
C6_Witness ==
    /\ Analysed
    /\ Len(rules) = 3
    /\ \A k \in DOMAIN rules : rules[k].negate_destination /\ SameRule(rules[k], rules[1])
    /\ merges = <<>>

(***************************************************************************)
(* C7  Fingerprint equivalence.  Two rules that differ only in their       *)
(* application, service, source or destination lists have the same         *)
(* fingerprint and share their bucket (a proposal holds both or neither);  *)
(* two rules that differ only in schedule have different fingerprints and  *)
(* are in different buckets (no proposal holds both).                      *)
(***************************************************************************)
Unnamed(r) == [r EXCEPT !.name = "", !.position = 0]

OnlyMergeDimsDiffer(a, b) ==
    [Unnamed(a) EXCEPT !.application = <<>>, !.service = <<>>, !.source = <<>>, !.destination = <<>>]
        = [Unnamed(b) EXCEPT !.application = <<>>, !.service = <<>>, !.source = <<>>, !.destination = <<>>]

OnlyScheduleDiffers(a, b) ==
    /\ a.schedule # b.schedule
    /\ [Unnamed(a) EXCEPT !.schedule = None] = [Unnamed(b) EXCEPT !.schedule = None]

InProposal(r, p) == r.name \in Elems(p.source_rules)

SameBucket(a, b) == b \in Elems(Bucket(rules, non_broadening_fingerprint(a)))

C7_FingerprintEquivalence ==
    Analysed =>
        \A i \in DOMAIN rules : \A j \in DOMAIN rules \ {i} :
            /\ OnlyMergeDimsDiffer(rules[i], rules[j]) =>
                  /\ non_broadening_fingerprint(rules[i]) = non_broadening_fingerprint(rules[j])
                  /\ SameBucket(rules[i], rules[j])
                  /\ \A k \in DOMAIN merges :
                        InProposal(rules[i], merges[k]) <=> InProposal(rules[j], merges[k])
            /\ OnlyScheduleDiffers(rules[i], rules[j]) =>
                  /\ non_broadening_fingerprint(rules[i]) # non_broadening_fingerprint(rules[j])
                  /\ ~SameBucket(rules[i], rules[j])
                  /\ \A k \in DOMAIN merges :
                        ~(InProposal(rules[i], merges[k]) /\ InProposal(rules[j], merges[k]))

\* Two rules with different sources merged, a third set apart by its schedule.
C7_Witness ==
    /\ Analysed
    /\ \E i \in DOMAIN rules : \E j \in DOMAIN rules : \E h \in DOMAIN rules :
          /\ OnlyMergeDimsDiffer(rules[i], rules[j])
          /\ rules[i].source # rules[j].source
          /\ OnlyScheduleDiffers(rules[i], rules[h])
          /\ \E k \in DOMAIN merges :
                /\ InProposal(rules[i], merges[k])
                /\ InProposal(rules[j], merges[k])
                /\ ~InProposal(rules[h], merges[k])

(***************************************************************************)
(* C8  Any-is-universal symmetry.  In every match dimension, replacing an  *)
(* empty list by ["any"] (or the reverse) in a rule changes neither the    *)
(* superset test of shadow detection (_covers) nor the intersection test   *)
(* of the order-sensitivity scan (rule_intersects); the same holds for a   *)
(* list the scan union is made of.                                         *)
(***************************************************************************)
SwapAny(r, d) ==
    IF r[d] = <<>> THEN [r EXCEPT ![d] = <<"any">>]
    ELSE IF r[d] = <<"any">> THEN [r EXCEPT ![d] = <<>>]
    ELSE r

\* The lists the scan union of a proposal was built from, as one record, and
\* the union built from such a record, so that one list of it can be replaced.
UnionLists(p) ==
    LET m == RuleNamed(p.source_rules[1])
    IN  [fromzone |-> m.fromzone, tozone |-> m.tozone,
         source_user |-> m.source_user, url_category |-> m.url_category,
         schedule |-> m.schedule,
         application |-> p.apps_union, service |-> p.services_union,
         source |-> p.sources_union, destination |-> p.destinations_union]

UnionFrom(u) == ScanUnion(<<u>>, u.application, u.service, u.source, u.destination)

\* Swappable(r, d): the dimension d of r is empty or ["any"], so that the
\* replacement changes r (elsewhere the two sides below are the same call).
Swappable(r, d) == r[d] = <<>> \/ r[d] = <<"any">>

C8_AnyIsUniversalSymmetry ==
    /\ \A a \in Elems(rules) : \A d \in {e \in Dims : Swappable(a, e)} :
          \A b \in Elems(rules) :
              /\ _covers(SwapAny(a, d), b) = _covers(a, b)
              /\ _covers(b, SwapAny(a, d)) = _covers(b, a)
    /\ \A u \in {UnionLists(merges[k]) : k \in DOMAIN merges} :
          /\ \A a \in Elems(rules) : \A d \in {e \in Dims : Swappable(a, e)} :
                rule_intersects(SwapAny(a, d), UnionFrom(u)) = rule_intersects(a, UnionFrom(u))
          /\ \A d \in {e \in Dims : Swappable(u, e)} : \A a \in Elems(rules) :
                rule_intersects(a, UnionFrom(SwapAny(u, d))) = rule_intersects(a, UnionFrom(u))

\* An earlier rule with an empty dimension shadows a later one, and the
\* proposal of the two, whose union is empty in that dimension, is
\* order-sensitive because of an enumerated deny between them.
C8_Witness ==
    /\ Analysed
    /\ \E d \in MergeDims : \E a \in Elems(rules) : \E b \in Elems(rules) :
          a[d] = <<>> /\ HasFinding(a, b)
    /\ \E k \in DOMAIN merges :
          /\ merges[k].order_sensitive
          /\ <<>> \in {merges[k].apps_union, merges[k].services_union,
                       merges[k].sources_union, merges[k].destinations_union}
          /\ \E r \in InterveningDenies(merges[k]) : \A d \in Dims : r[d] = <<"a">>

(***************************************************************************)
(* C9  Determinism and idempotence.  Once the analysis has run, running    *)
(* it again on the same rule list and the same overlay leaves the Unused,  *)
(* Shadow and Proposal collections as they are: same elements, same        *)
(* order, same field values.                                               *)
(***************************************************************************)
C9_RerunIdentical ==
    [][(Analysed /\ hit_counts' = hit_counts)
          => (unused' = unused /\ shadows' = shadows /\ merges' = merges)]_vars

\* A second run over a list the first run's overlay merge has written to.
C9_Witness ==
    /\ runs = 2
    /\ hit_counts # EmptyOverlay
    /\ \E r \in Elems(rules) : r.hits_total # None
    /\ unused # <<>>
    /\ shadows # <<>>
    /\ merges # <<>>

(***************************************************************************)
(* C10  In every proposal, confidence is "High" with the 'Merge'           *)
(* recommendation and an empty order_reason exactly when order_sensitive   *)
(* is false, and "Low" with the 'Review' recommendation and a non-empty    *)
(* order_reason exactly when order_sensitive is true; there is no other    *)
(* confidence value.                                                       *)
(***************************************************************************)
MergeAdvice == "Merge: Identical qualifiers; union of objects is equivalent; no intervening deny."

ReviewAdvice == "Review: Intervening deny/ordering may affect behavior; manual confirmation required."

C10_ConfidenceFollowsOrderSensitivity ==
    Analysed =>
        \A k \in DOMAIN merges :
            /\ merges[k].confidence \in {"High", "Low"}
            /\ merges[k].order_sensitive \in BOOLEAN
            /\ ~merges[k].order_sensitive <=>
                  /\ merges[k].confidence = "High"
                  /\ merges[k].recommendation = MergeAdvice
                  /\ merges[k].order_reason = <<>>
            /\ merges[k].order_sensitive <=>
                  /\ merges[k].confidence = "Low"
                  /\ merges[k].recommendation = ReviewAdvice
                  /\ merges[k].order_reason # <<>>

\* An allow group with an intersecting deny between its members.
C10_Witness ==
    /\ Analysed
    /\ \E k \in DOMAIN merges :
          /\ merges[k].order_sensitive
          /\ merges[k].confidence = "Low"
          /\ \E r \in InterveningDenies(merges[k]) : r \notin Members(merges[k])

(***************************************************************************)
(* C11  A disabled rule is in no shadow finding, neither as the shadowing  *)
(* nor as the shadowed rule, and the two rules of a finding have the same  *)
(* action.                                                                 *)
(***************************************************************************)
Shadowing(f) == RuleNamed(f.shadowing_rule)

Shadowed(f) == RuleNamed(f.shadowed_rule)

C11_NoDisabledNoMixedAction ==
    Analysed =>
        /\ \A k \in DOMAIN shadows :
              /\ ~Shadowing(shadows[k]).disabled
              /\ ~Shadowed(shadows[k]).disabled
              /\ Shadowing(shadows[k]).action = Shadowed(shadows[k]).action
        /\ \A a \in Elems(rules) : \A b \in Elems(rules) :
              (a.disabled \/ b.disabled \/ a.action # b.action) => ~HasFinding(a, b)

\* A disabled rule between two enabled rules that match the same traffic:
\* the enabled pair is reported, the disabled rule is not.
C11_Witness ==
    /\ Analysed
    /\ Len(rules) = 3
    /\ rules[2].disabled
    /\ SameMatch(rules[1], rules[3]) /\ SameMatch(rules[1], [rules[2] EXCEPT !.disabled = FALSE])
    /\ HasFinding(rules[1], rules[3])
    /\ Len(shadows) = 1

(***************************************************************************)
(* C12  The positions of the list being strictly increasing, every shadow  *)
(* finding has its shadowing position strictly below its shadowed          *)
(* position: no rule shadows itself and no pair is reported both ways.     *)
(***************************************************************************)
PositionsIncreasing ==
    \A i \in DOMAIN rules : \A j \in DOMAIN rules : i < j => rules[i].position < rules[j].position

C12_ShadowingComesFirst ==
    (Analysed /\ PositionsIncreasing) =>
        /\ \A k \in DOMAIN shadows :
              /\ shadows[k].shadowing_position < shadows[k].shadowed_position
              /\ shadows[k].shadowing_rule # shadows[k].shadowed_rule
        /\ \A a \in Elems(rules) : \A b \in Elems(rules) :
              ~(HasFinding(a, b) /\ HasFinding(b, a))

\* Two rules that cover each other; only the earlier is reported as shadowing.
C12_Witness ==
    /\ Analysed
    /\ PositionsIncreasing
    /\ \E a \in Elems(rules) : \E b \in Elems(rules) :
          /\ a.position < b.position
          /\ _covers(a, b) /\ _covers(b, a)
          /\ HasFinding(a, b)

(***************************************************************************)
(* C13  Actions are case-insensitive in the order-sensitivity scan: a      *)
(* rule between the lowest and highest member of a proposal whose action   *)
(* is deny or drop in any letter case and which intersects the proposed    *)
(* union in every dimension makes the proposal order-sensitive.            *)
(***************************************************************************)
Between(p) == {r \in Elems(rules) : Lowest(p) < r.position /\ r.position < Highest(p)}

C13_ActionCaseInsensitive ==
    Analysed =>
        \A k \in DOMAIN merges :
            (\E r \in Between(merges[k]) :
                /\ lower(r.action) \in {"deny", "drop"}
                /\ IntersectsProposal(r, merges[k]))
            => merges[k].order_sensitive

(***************************************************************************)
(* C16  A rule whose action is outside allow, deny, drop is an ordinary    *)
(* input: the rule cited by an order-sensitive proposal is never such a    *)
(* rule, a proposal with only such rules and allow rules between its       *)
(* members is not order-sensitive, and the analysis of a list holding      *)
(* such a rule returns its three collections.                              *)
(***************************************************************************)
Outside(r) == r.action \notin {"allow", "deny", "drop"}

RuleAt(pos) == CHOOSE r \in Elems(rules) : r.position = pos

C16_UnknownActionNeverIntervenes ==
    Analysed =>
        \A k \in DOMAIN merges :
            /\ merges[k].order_sensitive =>
                  /\ \E r \in Elems(rules) : r.position = merges[k].order_reason[2]
                  /\ ~Outside(RuleAt(merges[k].order_reason[2]))
            /\ (\A r \in Between(merges[k]) : Outside(r) \/ r.action = "allow")
                  => ~merges[k].order_sensitive

\* allow, reset-both, allow on the same traffic: the two allow rules are
\* proposed for a merge that is not order-sensitive, and the later is
\* reported as shadowed by the earlier.
C16_Witness ==
    /\ Analysed
    /\ Len(rules) = 3
    /\ rules[1].action = "allow" /\ rules[2].action = "reset-both" /\ rules[3].action = "allow"
    /\ SameMatch(rules[1], rules[2]) /\ SameRule(rules[1], rules[3])
    /\ \E p \in ProposalOf(<<"r1", "r3">>) : ~p.order_sensitive /\ p.confidence = "High"
    /\ HasFinding(rules[1], rules[3])
    /\ unused = <<>>

(***************************************************************************)
(* C14  Hit-count overlay merge.  A run with an overlay sets hits_total,   *)
(* last_hit and counter_since on the rules whose name is a key of the      *)
(* overlay and leaves every other rule as it was; an overlay entry whose   *)
(* name is no rule's changes no rule and no result (the run is that of     *)
(* the overlay without such entries); a rule without hit data whose name   *)
(* is not in the overlay keeps hits_total absent and is not reported as    *)
(* unused.                                                                 *)
(***************************************************************************)
Names(rs) == {rs[k].name : k \in DOMAIN rs}

Restrict(hc, S) == [n \in (DOMAIN hc) \cap S |-> hc[n]]

C14_OverlayMergeByName ==
    [][/\ DOMAIN rules' = DOMAIN rules
       /\ \A k \in DOMAIN rules :
             /\ rules[k].name \notin DOMAIN hit_counts' => rules'[k] = rules[k]
             /\ rules[k].name \in DOMAIN hit_counts' =>
                   rules'[k] = [rules[k] EXCEPT !.hits_total = hit_counts'[rules[k].name].total,
                                                !.last_hit = hit_counts'[rules[k].name].last,
                                                !.counter_since = hit_counts'[rules[k].name].since]
             /\ (rules[k].hits_total = None /\ rules[k].name \notin DOMAIN hit_counts') =>
                   /\ rules'[k].hits_total = None
                   /\ \A m \in DOMAIN unused' : unused'[m].name # rules[k].name
       /\ LET known == AnalyzerInit(rules, Restrict(hit_counts', Names(rules)))
          IN  /\ rules' = known
              /\ unused' = unused_rules_zero_hits(known)
       /\ \A m \in DOMAIN unused' : unused'[m].name \in Names(rules)
       /\ \A m \in DOMAIN shadows' :
             {shadows'[m].shadowing_rule, shadows'[m].shadowed_rule} \subseteq Names(rules)
       /\ \A m \in DOMAIN merges' : Elems(merges'[m].source_rules) \subseteq Names(rules)
      ]_vars

\* The first run of three rules with an overlay naming r1 (0 hits), r2 (7)
\* and a rule that is not in the list: r1 alone is unused, r3 has no data.
C14_Witness ==
    /\ runs = 1
    /\ Len(rules) = 3
    /\ DOMAIN hit_counts = {"r1", "r2", "ghost"}
    /\ rules[1].hits_total = Some(0) /\ rules[1].last_hit = Some("t1")
    /\ rules[2].hits_total = Some(7)
    /\ rules[3].hits_total = None /\ rules[3].last_hit = None
    /\ unused = <<rules[1]>>

(***************************************************************************)
(* C15  For an empty rule list the unused, shadow and proposal             *)
(* collections are all empty and the analysis does not fail; for a list    *)
(* of one rule the shadow and proposal collections are empty.              *)
(***************************************************************************)
C15_EmptyAndSingleList ==
    Analysed =>
        /\ rules = <<>> => (unused = <<>> /\ shadows = <<>> /\ merges = <<>>)
        /\ Len(rules) = 1 => (shadows = <<>> /\ merges = <<>>)

\* The empty list analysed twice, the second time with an overlay.
C15_Witness ==
    /\ runs = 2
    /\ rules = <<>>
    /\ hit_counts # EmptyOverlay
    /\ unused = <<>> /\ shadows = <<>> /\ merges = <<>>

(***************************************************************************)
(* C17  Output ordering.  The unused collection lists the rules in input   *)
(* order; the shadow findings are ordered by the position of the           *)
(* shadowing (earlier) rule ascending and, for one shadowing rule, by the  *)
(* position of the shadowed (later) rule ascending.                        *)
(***************************************************************************)
IndexOf(n) == CHOOSE k \in DOMAIN rules : rules[k].name = n

C17_OutputOrdering ==
    Analysed =>
        /\ \A i \in DOMAIN unused : \A j \in DOMAIN unused :
              i < j => IndexOf(unused[i].name) < IndexOf(unused[j].name)
        /\ \A i \in DOMAIN shadows : \A j \in DOMAIN shadows :
              i < j =>
                 \/ shadows[i].shadowing_position < shadows[j].shadowing_position
                 \/ /\ shadows[i].shadowing_position = shadows[j].shadowing_position
                    /\ shadows[i].shadowed_position < shadows[j].shadowed_position

\* Four rules on the same traffic: r1 shadows r4 (reported third) before r2
\* shadows r3 (reported fourth); r2 and r3 are unused, in that order.
C17_Witness ==
    /\ Analysed
    /\ Len(rules) = 4
    /\ Len(shadows) = 6
    /\ shadows[3].shadowing_position = 1 /\ shadows[3].shadowed_position = 4
    /\ shadows[4].shadowing_position = 2 /\ shadows[4].shadowed_position = 3
    /\ Len(unused) = 2
    /\ unused[1].name = "r2" /\ unused[2].name = "r3"

(***************************************************************************)
(* C18  The analysis is read-only and its detectors are independent.  No   *)
(* run changes a rule's match qualifiers, position, action or flags, nor   *)
(* the order of the list, and the hit fields are those the overlay merge   *)
(* of the constructor wrote: the unused collection, computed first, is     *)
(* that of the list as the last detector leaves it.  Each collection       *)
(* depends on the list alone: a run that finds the list as the run before  *)
(* left it returns the same three collections.                             *)
(***************************************************************************)
ZeroHits(r) == r.hits_total = Some(0)

ZeroInOverlay(r) == r.name \in DOMAIN hit_counts /\ hit_counts[r.name].total = Some(0)

C19_NoStateAcrossRuns ==
    Analysed =>
        \A r \in Elems(rules) :
            (\E k \in DOMAIN unused : unused[k].name = r.name) <=> ZeroInOverlay(r)

(***************************************************************************)
(* C20  An absent hit count is never taken for 0 on import: a rule read    *)
(* by CSVReader.fetch_rules whose hit-count cell is missing, empty or not  *)
(* a number has hits_total absent and is not reported as unused.           *)
(***************************************************************************)
NoCount(row) == row.HitCount = None \/ row.HitCount[1] \notin {"0", "7"}

C20_AbsentHitCountStaysAbsent ==
    Analysed =>
        \A k \in DOMAIN csv_rows :
            NoCount(csv_rows[k]) =>
                /\ rules[k].hits_total = None
                /\ \A m \in DOMAIN unused : unused[m].name # csv_rows[k].Name

(***************************************************************************)
(* C21  Every proposal has at least two source rules, all with one         *)
(* fingerprint; a rule whose fingerprint no other rule has is in no        *)
(* proposal; source_rules and positions have the same length and           *)
(* positions[k] is the position of the rule source_rules[k].               *)
(***************************************************************************)
C21_ProposalShape ==
    Analysed =>
        /\ \A k \in DOMAIN merges :
              /\ Len(merges[k].source_rules) >= 2
              /\ Cardinality(Elems(merges[k].source_rules)) >= 2
              /\ Elems(merges[k].source_rules) \subseteq {r.name : r \in Elems(rules)}
              /\ \A a \in Members(merges[k]) : \A b \in Members(merges[k]) :
                    non_broadening_fingerprint(a) = non_broadening_fingerprint(b)
              /\ Len(merges[k].positions) = Len(merges[k].source_rules)
              /\ \A m \in DOMAIN merges[k].source_rules :
                    merges[k].positions[m] = RuleNamed(merges[k].source_rules[m]).position
        /\ \A r \in Elems(rules) :
              (\A o \in Elems(rules) \ {r} :
                    non_broadening_fingerprint(o) # non_broadening_fingerprint(r))
              => \A k \in DOMAIN merges : ~InProposal(r, merges[k])

\* Two rules of one fingerprint around a rule that is alone in its bucket.
C21_Witness ==
    /\ Analysed
    /\ Len(rules) = 3
    /\ non_broadening_fingerprint(rules[1]) = non_broadening_fingerprint(rules[3])
    /\ non_broadening_fingerprint(rules[1]) # non_broadening_fingerprint(rules[2])
    /\ Len(merges) = 1
    /\ merges[1].source_rules = <<"r1", "r3">>
    /\ merges[1].positions = <<1, 3>>

(***************************************************************************)
(* C22  In every proposal each of apps_union, services_union,              *)
(* sources_union and destinations_union is the set union of that list of   *)
(* all source rules: it holds every element of every member and nothing    *)
(* else, has no duplicates and is in ascending order.                      *)
(***************************************************************************)
UnionField == [application |-> "apps_union", service |-> "services_union",
               source |-> "sources_union", destination |-> "destinations_union"]

IsSetUnion(u, lists) ==
    /\ Elems(u) = UNION {Elems(l) : l \in lists}
    /\ \A i \in DOMAIN u : \A j \in DOMAIN u : i < j => Rank(u[i]) < Rank(u[j])

C22_UnionsAreSortedSetUnions ==
    Analysed =>
        \A k \in DOMAIN merges : \A d \in MergeDims :
            IsSetUnion(merges[k][UnionField[d]], {m[d] : m \in Members(merges[k])})

\* A first member with source b and a second with source a: the union is
\* a, b, not the lists one after the other.
C22_Witness ==
    /\ Analysed
    /\ \E k \in DOMAIN merges :
          /\ merges[k].sources_union = <<"a", "b">>
          /\ RuleNamed(merges[k].source_rules[1]).source = <<"b">>
          /\ RuleNamed(merges[k].source_rules[2]).source = <<"a">>

(***************************************************************************)
(* C23  The members of one fingerprint bucket have the same action,        *)
(* source-zone set, destination-zone set, source-user set, URL-category    *)
(* set, schedule, disabled flag and negate flags; so the first member's    *)
(* zones, users, URL categories and schedule, from which the scan union    *)
(* is built, are those of every source rule of the proposal.               *)
(***************************************************************************)
SameQualifiers(a, b) ==
    /\ a.action = b.action
    /\ Elems(a.fromzone) = Elems(b.fromzone)
    /\ Elems(a.tozone) = Elems(b.tozone)
    /\ Elems(a.source_user) = Elems(b.source_user)
    /\ Elems(a.url_category) = Elems(b.url_category)
    /\ a.schedule = b.schedule
    /\ a.disabled = b.disabled
    /\ a.negate_source = b.negate_source
    /\ a.negate_destination = b.negate_destination

C23_BucketMembersAgree ==
    Analysed =>
        /\ \A a \in Elems(rules) : \A b \in Elems(rules) :
              SameBucket(a, b) => SameQualifiers(a, b)
        /\ \A k \in DOMAIN merges : \A m \in Members(merges[k]) :
              SameQualifiers(RuleNamed(merges[k].source_rules[1]), m)

\* Two rules with the zones a, b are proposed for a merge; the rule between
\* them, which differs in the zone list only, is not in their bucket.
C23_Witness ==
    /\ Analysed
    /\ Len(rules) = 3
    /\ \E d \in {"fromzone", "tozone", "source_user", "url_category"} :
          /\ rules[1][d] = <<"a", "b">> /\ rules[3][d] = <<"a", "b">>
          /\ rules[2][d] = <<"a">>
          /\ SameMatch([rules[1] EXCEPT ![d] = <<"a">>], rules[2])
    /\ ~SameBucket(rules[1], rules[2])
    /\ \E p \in ProposalOf(<<"r1", "r3">>) : TRUE

(***************************************************************************)
(* C24  The fingerprint does not depend on the order of the elements of    *)
(* a rule's source-zone, destination-zone, source-user or URL-category     *)
(* list: with the elements of such a list of a rule permuted, the rule's   *)
(* fingerprint, the buckets and the proposals are the same.                *)
(***************************************************************************)
KeyDims == {"fromzone", "tozone", "source_user", "url_category"}

Reorderings(l) ==
    {[k \in DOMAIN l |-> l[p[k]]] : p \in {q \in [DOMAIN l -> DOMAIN l] : \A i \in DOMAIN l : \E j \in DOMAIN l : q[j] = i}}

BucketNames(rs) ==
    LET keys == BucketKeys(rs)
    IN  [k \in DOMAIN keys |-> [m \in DOMAIN Bucket(rs, keys[k]) |-> Bucket(rs, keys[k])[m].name]]

C24_FingerprintOrderIndependent ==
    \A k \in DOMAIN rules : \A d \in KeyDims :
        \A q \in Reorderings(rules[k][d]) \ {rules[k][d]} :
            LET permuted == [rules EXCEPT ![k][d] = q]
            IN  /\ non_broadening_fingerprint(permuted[k]) = non_broadening_fingerprint(rules[k])
                /\ BucketNames(permuted) = BucketNames(rules)
                /\ Analysed => propose_merges(permuted) = merges

\* A rule with the zones a, b is in a proposal with another such rule; the
\* list has a permutation other than itself.
C24_Witness ==
    /\ Analysed
    /\ \E d \in KeyDims : \E k \in DOMAIN merges : \E a \in Members(merges[k]) :
          /\ a[d] = <<"a", "b">>
          /\ <<"b", "a">> \in Reorderings(a[d])
          /\ \E b \in Members(merges[k]) : b # a /\ b[d] = <<"a", "b">>
    /\ \E r \in Elems(rules) : \A k \in DOMAIN merges : ~InProposal(r, merges[k])

(***************************************************************************)
(* C25  Shadowing is transitive in the findings: for rules A, B, C, if     *)
(* the findings hold (A shadows B) and (B shadows C), they hold            *)
(* (A shadows C).                                                          *)
(***************************************************************************)
C25_ShadowingTransitive ==
    Analysed =>
        \A a \in Elems(rules) : \A b \in Elems(rules) : \A c \in Elems(rules) :
            (HasFinding(a, b) /\ HasFinding(b, c)) => HasFinding(a, c)

\* A chain of strictly narrower rules: universal, then a and b, then a.
C25_Witness ==
    /\ Analysed
    /\ Len(rules) = 3
    /\ \E d \in Dims :
          /\ Universal(rules[1][d])
          /\ rules[2][d] = <<"a", "b">>
          /\ rules[3][d] = <<"a">>
    /\ HasFinding(rules[1], rules[2])
    /\ HasFinding(rules[2], rules[3])
    /\ HasFinding(rules[1], rules[3])
    /\ Len(shadows) = 3

(***************************************************************************)
(* C26  The order-sensitivity scan does not look at the disabled flag: a   *)
(* disabled deny or drop rule between the members of a proposal that       *)
(* intersects the proposed union makes the proposal order-sensitive, with  *)
(* confidence Low.                                                         *)
(***************************************************************************)
C26_DisabledDenyStillIntervenes ==
    Analysed =>
        \A k \in DOMAIN merges :
            (\E r \in InterveningDenies(merges[k]) : r.disabled)
            => (merges[k].order_sensitive /\ merges[k].confidence = "Low")

\* allow, disabled deny, allow on the same traffic: the disabled deny is the
\* only rule between the two members and is the one cited.
C26_Witness ==
    /\ Analysed
    /\ Len(rules) = 3
    /\ rules[1].action = "allow" /\ rules[2].action = "deny" /\ rules[2].disabled
    /\ SameRule(rules[1], rules[3]) /\ SameMatch(rules[1], [rules[2] EXCEPT !.disabled = FALSE])
    /\ \E p \in ProposalOf(<<"r1", "r3">>) :
          p.order_sensitive /\ p.confidence = "Low" /\ p.order_reason[2] = 2

(***************************************************************************)
(* C27  A deny or drop rule between the members of a proposal whose        *)
(* schedule differs from the group's (one of the two may have none) does   *)
(* not make the proposal order-sensitive, even if it intersects the union  *)
(* in all eight set dimensions: a proposal with no other deny or drop      *)
(* rule between its members is not order-sensitive.                        *)
(***************************************************************************)
GroupSchedule(p) == RuleNamed(p.source_rules[1]).schedule

DeniesBetween(p) == {r \in Between(p) : r.action \in {"deny", "drop"}}

C27_ScheduleMismatchNeverIntervenes ==
    Analysed =>
        \A k \in DOMAIN merges :
            /\ (\A r \in DeniesBetween(merges[k]) : r.schedule # GroupSchedule(merges[k]))
                  => ~merges[k].order_sensitive
            /\ merges[k].order_sensitive =>
                  RuleAt(merges[k].order_reason[2]).schedule = GroupSchedule(merges[k])

\* A scheduled deny between two allow rules without schedule, and a deny
\* without schedule between two scheduled allow rules: same traffic in the
\* eight dimensions, no order sensitivity.
C27_Witness ==
    /\ Analysed
    /\ Len(rules) = 3
    /\ rules[2].action = "deny" /\ ~rules[2].disabled
    /\ rules[2].schedule # rules[1].schedule
    /\ \A d \in Dims : rules[2][d] = rules[1][d]
    /\ SameRule(rules[1], rules[3])
    /\ \E p \in ProposalOf(<<"r1", "r3">>) : ~p.order_sensitive /\ p.confidence = "High"

(***************************************************************************)
(* C28  The fingerprint buckets partition the rule list: every rule is in  *)
(* exactly one bucket, so a rule is among the source rules of at most one  *)
(* proposal (and once), and no proposal holds an enabled and a disabled    *)
(* rule, or rules of different actions.                                    *)
(***************************************************************************)
BucketsOf(r) ==
    LET keys == BucketKeys(rules)
    IN  {k \in DOMAIN keys : r \in Elems(Bucket(rules, keys[k]))}

C28_BucketsPartitionRules ==
    /\ \A r \in Elems(rules) : Cardinality(BucketsOf(r)) = 1
    /\ Analysed =>
          /\ \A r \in Elems(rules) :
                Cardinality({k \in DOMAIN merges : InProposal(r, merges[k])}) <= 1
          /\ \A k \in DOMAIN merges :
                /\ Cardinality(Elems(merges[k].source_rules)) = Len(merges[k].source_rules)
                /\ \A a \in Members(merges[k]) : \A b \in Members(merges[k]) :
                      a.disabled = b.disabled /\ a.action = b.action

\* Four rules, allow and deny alternating: two proposals with no rule in
\* common.
C28_Witness ==
    /\ Analysed
    /\ Len(rules) = 4
    /\ Len(merges) = 2
    /\ merges[1].source_rules = <<"r1", "r3">>
    /\ merges[2].source_rules = <<"r2", "r4">>
    /\ rules[1].action # rules[2].action

(***************************************************************************)
(* C29  After any sequence of analyse attempts (completed, ended early     *)
(* because no rules were found, or aborted by an error) the stored         *)
(* results unused, shadows, merges, df_rules and df_final are those of one *)
(* and the same run, the latest completed one; before the first completed  *)
(* run they are all as constructed.  A step that is not a completed        *)
(* analysis (it opens a box, or leaves a status other than the completion  *)
(* message) leaves all five as they were.                                  *)
(***************************************************************************)
Results == <<df_rules, df_final, unused, shadows, merges>>

Complete == "Analysis complete!"

FromOneRun(rs) ==
    /\ df_rules = Some(build_dataframe(rs))
    /\ unused = unused_rules_zero_hits(rs)
    /\ shadows = find_shadowed_rules(rs)
    /\ merges = propose_merges(rs)
    /\ df_final = Some(dataframe_with_recommendations(build_dataframe(rs), unused_rules_zero_hits(rs),
                                                      find_shadowed_rules(rs), propose_merges(rs)))

AsConstructed ==
    /\ df_rules = None
    /\ df_final = None
    /\ unused = <<>>
    /\ shadows = <<>>
    /\ merges = <<>>

C29_ResultsFromOneRun ==
    /\ [](IF Analysed THEN FromOneRun(rules) ELSE AsConstructed)
    /\ [][(status'.text # Complete \/ dialog' # dialog) => UNCHANGED Results]_vars

\* A run on two allow rules with r1 never hit completed, and a later attempt
\* was aborted by an error: the results of the completed run are all there.
C29_Witness ==
    /\ Analysed
    /\ status.text = "Error during API analysis."
    /\ Len(merges) = 1
    /\ Len(shadows) = 1
    /\ Len(unused) = 1
    /\ df_final # None
    /\ Len(df_final[1]) = 2
    /\ Len(df_final[1][1].Recommendation) = 2
    /\ Len(df_final[1][2].Recommendation) = 2

(***************************************************************************)
(* C30  Preview and export are gated on a completed analysis.  The Summary *)
(* window, the export's boxes and anything written exist only after a      *)
(* completed analysis has set df_final.  While df_final is None a step     *)
(* writes nothing, and it either is an analyse attempt (it completes, or   *)
(* opens one of the attempt's boxes) or shows 'Run analysis first.' and    *)
(* changes nothing else.                                                   *)
(***************************************************************************)
AttemptMessages ==
    {"API URL and API Key are required.", "API Error", "No security rules found in any VSYS.",
     "Please select a CSV file for import.", "CSV file not found",
     "No security rules found in CSV file.", "CSV Import Error"}

ExportMessages == {"Exported", "Export error"}

C30_PreviewAndExportGated ==
    /\ []((dialog.kind = "Summary" \/ dialog.message \in ExportMessages \/ written # {})
            => (df_final # None /\ Analysed))
    /\ [][df_final = None =>
            /\ written' = written
            /\ \/ df_final' # None
               \/ dialog'.message \in AttemptMessages
               \/ /\ dialog' = RunFirst
                  /\ UNCHANGED <<rules, hit_counts, unused, shadows, merges, runs, csv_rows, df_rules, df_final, status, written>>]_vars

\* An attempt was aborted by an error and no analysis has completed; the
\* button pressed after it showed the notice, and nothing was written.
C30_Witness ==
    /\ df_final = None
    /\ ~Analysed
    /\ dialog = RunFirst
    /\ status.text = "Error during API analysis."
    /\ written = {}

====
